---- MODULE Spec2Model ----
(***************************************************************************)
(* Queue-driven ingestion of opendatacube/WOFLs-orchestration.             *)
(*                                                                         *)
(* One SQS queue is consumed by one of the repository's two consumer       *)
(* programs: the orchestrator (Docker/Orchestrator/orchestrate.py,         *)
(* query_queue driven by main's schedule loop) or the worker               *)
(* (Docker/watch-queue.py, processing_loop).  Which program runs is chosen *)
(* in Init (variable program).  The queue service, the S3 fetch, the index *)
(* registration (add_dataset) and the processing function (run.main) are   *)
(* the environment: their results are drawn with \E in the actions.        *)
(*                                                                         *)
(* ArchiveSpec and SchedulerSpec are the archival of the orchestrator's    *)
(* main (archive_datasets, run at startup and daily) on an index of        *)
(* datasets with lineage.  DrainSpec is the two dead-letter tools          *)
(* (dead_queue_to_live_queue.py, file_deadqueue.py) on a dead-letter       *)
(* queue.  AdderSpec is add_to_queue.py on a bucket listing.  PoolSpec is   *)
(* several workers on one queue, with leases that run out; TimedSpec is    *)
(* one worker and its clock; MainSpec is the orchestrator's main with the  *)
(* queue job and an archive job while notifications keep arriving.         *)
(***************************************************************************)
EXTENDS Integers, Sequences, FiniteSets, TLC

(* ------------------------------ bounds -------------------------------- *)

\* number of messages the queue holds at a time
NumMsgs == 2
\* largest number of entries of a message's Records list
MaxRecords == 2
\* MAX_JOB_PER_WORKER the worker is run with: the MaxNumberOfMessages of its
\* receive, which returns from one message up to that many
MaxJobs == 2
\* number of datasets of the index
NumDatasets == 3
\* largest number of --archive (product, days) pairs
MaxPolicies == 2
\* number of days that pass while the orchestrator runs
MaxDays == 1
\* number of messages of the dead-letter queue
NumDead == 2
\* most bodies one run of the drain-to-file tool writes
MaxWrites == 3
\* largest number of keys under the bucket path
MaxKeys == 3
\* keys in one page of the listing
PageSize == 2
\* largest LIMIT
MaxLimit == 3
\* number of worker processes on one queue
NumWorkers == 2
\* how many leases can run out in one run
MaxExpiries == 1
\* JOB_MAX_TIME_SEC, in ticks of the clock
JobMaxTime == 2
\* SQS_POLL_TIME_SEC, in ticks of the clock
SqsPollTime == 1
\* the last tick of the clock
MaxClock == 4

MsgIds == 1..NumMsgs

(* --------------------------- message bodies --------------------------- *)

\* An S3 object key is modelled by the parts of PurePath(key).
KeyX == <<"x", "y.yaml">>
KeyZ == <<"z", "y.yaml">>
Keys == {KeyX, KeyZ}

\* d.type of the dataset add_dataset makes of the metadata document stored
\* under a key: the product the document names.
ProductOf(key) == IF key = KeyX THEN "p1" ELSE "p2"

\* record["s3"]["bucket"]["name"], record["s3"]["object"]["key"]
RecordOf(k) == [bucket |-> "b", key |-> k]

RecordLists == UNION {[1..n -> {RecordOf(k) : k \in Keys}] : n \in 0..MaxRecords}

\* The inner payload json.loads(inner["Message"]): with a Records list, or
\* without the Records field ({"Message": "{}"}).
NoRecordsBody == [hasRecords |-> FALSE, records |-> <<>>]
Bodies == {[hasRecords |-> TRUE, records |-> r] : r \in RecordLists} \cup {NoRecordsBody}

\* md5(body.encode("utf-8")).hexdigest(): a digest that is a function of the
\* body alone; distinct bodies of the model have distinct digests.
Md5(body) == <<"md5", body>>

\* message.get("MD5OfBody", ""): the default of a missing field is the empty
\* string, which is no digest.
MissingMd5 == <<>>

\* The messages the queue can hold: every body with its true digest, and a
\* body whose MD5OfBody field is missing or is the digest of another body.
CorruptBody == [hasRecords |-> TRUE, records |-> <<RecordOf(KeyX)>>]
Messages ==
    {[body |-> b, md5 |-> Md5(b)] : b \in Bodies}
      \cup {[body |-> CorruptBody, md5 |-> MissingMd5],
            [body |-> CorruptBody, md5 |-> Md5(NoRecordsBody)]}

(* ------------------------------ filters ------------------------------- *)

\* fnmatch.fnmatchcase(part, pat) for the pattern parts of the model: "*"
\* matches every part, any other pattern part matches itself only.
FnMatch(part, pat) == pat = "*" \/ part = pat

\* PurePath(key).match(p) for a relative pattern: the pattern must not have
\* more parts than the path, and is matched part by part from the right.
PurePathMatch(key, pat) ==
    /\ Len(pat) <= Len(key)
    /\ \A j \in 1..Len(pat) :
          FnMatch(key[Len(key) - Len(pat) + j], pat[j])

\* --prefix (click multiple=True) / sqs_message_prefix: None or a sequence of
\* patterns.
PrefixNone == [isNone |-> TRUE, pats |-> <<>>]
PrefixOptions ==
    {PrefixNone,
     [isNone |-> FALSE, pats |-> <<>>],
     [isNone |-> FALSE, pats |-> << <<"x", "*">> >>],
     [isNone |-> FALSE, pats |-> << <<"q", "*">>, <<"z", "y.yaml">> >>]}

\* Mutant of Selected: all() in place of any().
SelectedByAllFilters(key, prefix) ==
    \/ prefix.isNone
    \/ \A j \in 1..Len(prefix.pats) : PurePathMatch(key, prefix.pats[j])

\* prefix is None or len(prefix) is 0 or any([PurePath(key).match(p) for p in prefix])
Selected(key, prefix) ==
    \/ prefix.isNone
    \/ Len(prefix.pats) = 0
    \/ \E j \in 1..Len(prefix.pats) : PurePathMatch(key, prefix.pats[j])

(* ------------------------ the decoders (pure) ------------------------- *)

None == "None"
NoRecordError == "Message did not contain S3 records"
NoRecordKey == <<"no_record">>

\* any(errors.values()): a value other than None is truthy (a non-empty
\* error string or an exception object).
AnyError(errors) == \E k \in DOMAIN errors : errors[k] # None

\* errors[key] = value on a dict: the key is added or its value overwritten.
DictSet(d, k, v) == (k :> v) @@ d

\* What the environment does for one selected record of the orchestrator:
\* add_dataset returns (dataset, None) ("ok"), or it returns (None, error)
\* ("add_error"), or the S3 get, the yaml load or add_dataset raises
\* ("exception").
RegOutcomes == {"ok", "add_error", "exception"}
NotAttempted == "skipped"

\* Mutant of RegisterRecord: no try/except around the fetch and the
\* registration, so the first exception ends the loop.
RegisterRecordUncaught(acc, key, prefix, o) ==
    IF acc.raised
    THEN acc
    ELSE IF Selected(key, prefix)
    THEN [acc EXCEPT
            !.calls = Append(@, key),
            !.outcomes = Append(@, o),
            !.errors = DictSet(@, key, IF o = "add_error" THEN o ELSE None),
            !.datasets = IF o = "ok" THEN Append(@, ProductOf(key)) ELSE @,
            !.raised = (o = "exception")]
    ELSE [acc EXCEPT !.skipped = @ + 1]

\* One iteration of the for loop of process_message, on the record with this
\* key and this outcome of its fetch and registration.
RegisterRecord(acc, key, prefix, o) ==
    IF Selected(key, prefix)
    THEN [acc EXCEPT
            !.calls = Append(@, key),
            !.outcomes = Append(@, o),
            !.errors = DictSet(@, key, IF o = "ok" THEN None ELSE o),
            !.datasets = IF o = "ok" THEN Append(@, ProductOf(key)) ELSE @]
    ELSE [acc EXCEPT !.skipped = @ + 1]

RECURSIVE ProcessRecords(_, _, _, _, _)
ProcessRecords(records, prefix, oc, i, acc) ==
    IF i > Len(records)
    THEN acc
    ELSE ProcessRecords(records, prefix, oc, i + 1,
                        RegisterRecord(acc, records[i].key, prefix, oc[i]))

EmptyResult ==
    [arity |-> 3, datasets |-> <<>>, skipped |-> 0, errors |-> <<>>,
     calls |-> <<>>, outcomes |-> <<>>, raised |-> FALSE]

\* Mutant of ProcessMessage: the early return gives (datasets, skipped,
\* errors) like the final one.
ProcessMessageTriple(body, prefix, oc) ==
    IF ~body.hasRecords
    THEN [EmptyResult EXCEPT !.errors = DictSet(<<>>, NoRecordKey, NoRecordError)]
    ELSE ProcessRecords(body.records, prefix, oc, 1, EmptyResult)

\* process_message(index, message, prefix, sources_policy): arity is the
\* length of the returned tuple, (datasets, errors) when the payload has no
\* Records and (datasets, skipped, errors) otherwise.
ProcessMessage(body, prefix, oc) ==
    IF ~body.hasRecords
    THEN [EmptyResult EXCEPT !.arity = 2,
                             !.errors = DictSet(<<>>, NoRecordKey, NoRecordError)]
    ELSE ProcessRecords(body.records, prefix, oc, 1, EmptyResult)

\* Mutant of ReadRecord: a key the filters exclude is reported as an error.
ReadRecordSkipIsError(acc, key, prefix) ==
    IF Selected(key, prefix)
    THEN [acc EXCEPT !.datasets = Append(@, key)]
    ELSE [acc EXCEPT !.skipped = @ + 1,
                     !.errors = DictSet(@, key, "skipped")]

\* One iteration of the for loop of read_message.
ReadRecord(acc, key, prefix) ==
    IF Selected(key, prefix)
    THEN [acc EXCEPT !.datasets = Append(@, key)]
    ELSE [acc EXCEPT !.skipped = @ + 1]

RECURSIVE ReadRecords(_, _, _, _)
ReadRecords(records, prefix, i, acc) ==
    IF i > Len(records)
    THEN acc
    ELSE ReadRecords(records, prefix, i + 1, ReadRecord(acc, records[i].key, prefix))

\* read_message(message, prefix) of the worker: the selected keys.
ReadMessage(body, prefix) ==
    IF ~body.hasRecords
    THEN [EmptyResult EXCEPT !.arity = 2,
                             !.errors = DictSet(<<>>, NoRecordKey, NoRecordError)]
    ELSE ReadRecords(body.records, prefix, 1, EmptyResult)

\* How one call run.main(key) ends: output uploaded ("ok"), the else branch
\* 'Something went wrong during masking' with no output ("error_branch"), an
\* exception ("raise"), or sys.exit in the processing code ("exit").
RunOutcomes == {"ok", "error_branch", "raise", "exit"}
Propagates(o) == o \in {"raise", "exit"}

\* for key in datasets: run.main(key).  Nothing catches what run.main raises,
\* so the loop ends at the first call that raises or exits.
RECURSIVE RunKeys(_, _, _, _)
RunKeys(datasets, wo, i, acc) ==
    IF i > Len(datasets)
    THEN acc
    ELSE LET acc1 == [acc EXCEPT !.calls = Append(@, datasets[i]),
                                 !.outcomes = Append(@, wo[i])]
         IN  IF Propagates(wo[i])
             THEN [acc1 EXCEPT !.raised = TRUE]
             ELSE RunKeys(datasets, wo, i + 1, acc1)

\* Mutant of ChecksumValid: the digest is not compared.
ChecksumNotCompared(msg) == TRUE

\* md5_of_body == md5_hash.hexdigest()
ChecksumValid(msg) == msg.md5 = Md5(msg.body)

(* ------------------------------- state -------------------------------- *)

VARIABLES
    program,             \* which consumer runs: "orchestrate" or "watch_queue"
    prefix,              \* the configured filters
    msgs,                \* the content of each message, once the consumer read it
    qstate,              \* SQS: "visible", "inflight" (leased) or "deleted"
    pc,                  \* where the consumer is
    batch,               \* response["Messages"] not yet iterated
    message,             \* the message the for loop is at (0: none)
    messages_processed,
    products_to_update,  \* query_queue's accumulator
    range_calls,         \* the add_product_range calls of the return just made
    last                 \* what the loop body just did for a message

\* The archival of the orchestrator's main (program "archive").
VARIABLES
    index,               \* the datasets of the index: product, time, lineage sources
    archived,            \* the ids of the archived datasets
    archive,             \* --archive: the configured (product, days) pairs
    now,                 \* datetime.now(), in days
    todo,                \* the pairs the for loop, the jobs run_pending has yet to run
    arun                 \* what the archive_datasets call just made did

archiveVars == <<index, archived, archive, now, todo, arun>>

\* The dead-letter tools (programs "dead2living" and "dead2file").
VARIABLES
    dlqueue,             \* the dead-letter queue: body and SQS state of each message
    queue,               \* the bodies sent to the live queue, in order
    f,                   \* the characters written to the file
    n_messages,          \* the count the while loop tests
    dl_response,         \* what the receive just made returned: "none" before any
    dl_message,          \* messages[0] of that receive (0: none)
    received             \* the messages getmessage returned, in order

drainVars == <<dlqueue, queue, f, n_messages, dl_response, dl_message, received>>

\* add_to_queue.py (program "add_to_queue").
VARIABLES
    pages,               \* the responses of s3.list_objects_v2: the keys of each page
    limit,               \* get_items(limit, suffix)
    suffix,
    count,               \* the counter of get_items
    cursor               \* where get_matching_s3_keys is: <<page, object>>

adderVars == <<pages, limit, suffix, count, cursor>>

\* Several workers on one queue (program "worker_pool").
VARIABLES
    workers,             \* of each worker: pc, the response being iterated, the message
    leases,              \* of each message: who received it last, how often its lease ran out
    ran                  \* of each message: the workers that passed it to run.main, in order

poolVars == <<workers, leases, ran>>

\* The worker with its clock (program "watch_queue_timed").
VARIABLES
    clock,               \* time.time()
    start_time,          \* start_time of processing_loop
    received_at,         \* when the receive returned: the start of the leases
    job_check            \* the job_time test just made

timedVars == <<clock, start_time, received_at, job_check>>

otherVars == <<adderVars, poolVars, timedVars>>

consumerVars == <<prefix, msgs, qstate, batch, message, messages_processed,
                  products_to_update, range_calls, last>>

vars == <<program, prefix, msgs, qstate, pc, batch, message, messages_processed,
          products_to_update, range_calls, last, archiveVars, drainVars, otherVars>>

\* sqs.receive_message(QueueUrl, WaitTimeSeconds) of query_queue passes no
\* MaxNumberOfMessages: one message per receive.
OrchMaxNumberOfMessages == 1

\* messages_processed is bounded by the number of messages handled in a pass
MaxProcessed == NumMsgs + 1

\* The content of a message no consumer has read yet: the producer's choice,
\* which the model draws when the loop body first reads message.get("Body").
NotRead == [body |-> NoRecordsBody, md5 |-> <<"not read">>]

\* deletes: the delete_message calls of the iteration; raised: the iteration
\* ended in an exception nothing catches.
NoLast ==
    [id |-> 0, msg |-> NotRead, valid |-> FALSE, result |-> EmptyResult,
     decoded |-> FALSE, logged |-> {}, deletes |-> 0, raised |-> FALSE]

\* No archive_datasets call was made yet.
NoRun ==
    [ran |-> FALSE, product |-> "", days |-> 0, now |-> 0, outcome |-> "",
     before |-> {}, matched |-> <<>>, archive_calls |-> 0, ids |-> <<>>,
     ranges |-> <<>>]

\* The archival has no part in the run: no dataset, no --archive pair.
NoArchival ==
    /\ index = <<>>
    /\ archived = {}
    /\ archive = <<>>
    /\ now = 0
    /\ todo = <<>>
    /\ arun = NoRun

\* The dead-letter tools have no part in the run.
NoDrain ==
    /\ dlqueue = <<>>
    /\ queue = <<>>
    /\ f = <<>>
    /\ n_messages = 0
    /\ dl_response = "none"
    /\ dl_message = 0
    /\ received = <<>>

\* add_to_queue.py, the worker pool and the timed worker have no part in the run.
NoJobCheck == [id |-> 0, timed |-> FALSE, job_time |-> 0, logged |-> FALSE, held |-> 0]
NoOthers ==
    /\ pages = <<>>
    /\ limit = 0
    /\ suffix = <<>>
    /\ count = 0
    /\ cursor = <<0, 0>>
    /\ workers = <<>>
    /\ leases = <<>>
    /\ ran = <<>>
    /\ clock = 0
    /\ start_time = 0
    /\ received_at = 0
    /\ job_check = NoJobCheck

\* The queue consumers have no part in the run.
NoConsumer ==
    /\ prefix = PrefixNone
    /\ msgs = [m \in MsgIds |-> NotRead]
    /\ qstate = [m \in MsgIds |-> "visible"]
    /\ batch = <<>>
    /\ message = 0
    /\ messages_processed = 0
    /\ products_to_update = <<>>
    /\ range_calls = <<>>
    /\ last = NoLast

Init ==
    /\ program \in {"orchestrate", "watch_queue"}
    /\ prefix \in PrefixOptions
    /\ msgs = [m \in MsgIds |-> NotRead]
    /\ qstate = [m \in MsgIds |-> "visible"]
    /\ pc = IF program = "orchestrate" THEN "idle" ELSE "receive"
    /\ batch = <<>>
    /\ message = 0
    /\ messages_processed = 0
    /\ products_to_update = <<>>
    /\ range_calls = <<>>
    /\ last = NoLast
    /\ NoArchival
    /\ NoDrain
    /\ NoOthers

Visible == {m \in MsgIds : qstate[m] = "visible"}

\* The responses a receive of at most n messages can give: a non-empty
\* sequence of distinct visible messages.
Responses(n) ==
    {b \in UNION {[1..k -> Visible] : k \in 1..n} :
        \A i, j \in 1..Len(b) : i # j => b[i] # b[j]}

\* Mutant of Lease: a received message stays visible.
LeaseNothing(b) == qstate

Lease(b) ==
    [m \in MsgIds |-> IF \E i \in 1..Len(b) : b[i] = m THEN "inflight" ELSE qstate[m]]

\* message.get("Body"), message.get("MD5OfBody", ""): what the message holds;
\* a message delivered again holds what it held before.
Contents(m) == IF msgs[m] = NotRead THEN Messages ELSE {msgs[m]}

(* ------------------------------ the queue ------------------------------ *)

\* The visibility timeout of a leased message runs out: it is visible again.
VisibilityTimeout(m) ==
    /\ qstate[m] = "inflight"
    /\ qstate' = [qstate EXCEPT ![m] = "visible"]
    /\ UNCHANGED <<otherVars, archiveVars, drainVars, program, prefix, msgs, pc, batch, message, messages_processed,
                   products_to_update, range_calls, last>>

\* sqs.delete_message(QueueUrl, ReceiptHandle)
DeleteFromQueue(m) == [qstate EXCEPT ![m] = "deleted"]

\* The queue after the loop body handled m, whose content was msg, with this
\* many delete_message calls.
AfterHandling(m, msg, deletes) ==
    /\ qstate' = IF deletes > 0 THEN DeleteFromQueue(m) ELSE qstate
    /\ msgs' = [msgs EXCEPT ![m] = IF deletes > 0 THEN NotRead ELSE msg]

(* --------------------------- the orchestrator -------------------------- *)

\* messages_processed += 1.  query_queue only tests the count for > 0: it is
\* kept up to MaxProcessed, which a pass over a queue without arrivals does
\* not reach.
Counted(n) == IF n < MaxProcessed THEN n + 1 ELSE n

\* main's loop: schedule.run_pending() starts the query job, query_queue
\* initialises its locals.
RunPending ==
    /\ program = "orchestrate"
    /\ pc = "idle"
    /\ pc' = "receive"
    /\ messages_processed' = 0
    /\ products_to_update' = <<>>
    /\ range_calls' = <<>>
    /\ last' = NoLast
    /\ UNCHANGED <<otherVars, archiveVars, drainVars, program, prefix, msgs, qstate, batch, message>>

\* "Messages" not in response: the product ranges are recomputed if a message
\* was processed, and query_queue returns.
OrchReceiveNone ==
    /\ program = "orchestrate"
    /\ pc = "receive"
    /\ Visible = {}
    /\ pc' = "idle"
    /\ messages_processed' = 0
    /\ range_calls' = IF messages_processed > 0 THEN products_to_update ELSE <<>>
    /\ last' = NoLast
    /\ UNCHANGED <<otherVars, archiveVars, drainVars, program, prefix, msgs, qstate, batch, message, products_to_update>>

OrchReceive ==
    /\ program = "orchestrate"
    /\ pc = "receive"
    /\ \E b \in Responses(OrchMaxNumberOfMessages) :
          /\ batch' = b
          /\ qstate' = Lease(b)
    /\ pc' = "batch"
    /\ last' = NoLast
    /\ UNCHANGED <<otherVars, archiveVars, drainVars, program, prefix, msgs, message, messages_processed,
                   products_to_update, range_calls>>

\* for message in response.get("Messages"): the next message of the response.
OrchNextMessage ==
    /\ program = "orchestrate"
    /\ pc = "batch"
    /\ batch # <<>>
    /\ message' = Head(batch)
    /\ batch' = Tail(batch)
    /\ pc' = "body"
    /\ last' = NoLast
    /\ UNCHANGED <<otherVars, archiveVars, drainVars, program, prefix, msgs, qstate, messages_processed,
                   products_to_update, range_calls>>

\* Mutant of AddProducts: every dataset's product is appended.
AddProductsUnchecked(acc, ds) == acc \o ds

\* for d in datasets: if product not in products_to_update: append
RECURSIVE AddProducts(_, _)
AddProducts(acc, ds) ==
    IF ds = <<>>
    THEN acc
    ELSE AddProducts(IF \E i \in 1..Len(acc) : acc[i] = Head(ds)
                     THEN acc ELSE Append(acc, Head(ds)),
                     Tail(ds))

\* Mutant of OrchDeletes: delete_message indented into the else branch of the
\* checksum test.
OrchDeletesInElse(valid, anyError) == IF valid THEN 0 ELSE 1

\* The delete_message calls that the body of query_queue's for loop makes for
\* a message that did not raise: the one call on line 154, at the level of the
\* for body, after the if/else on the checksum.
OrchDeletes(valid, anyError) == 1

\* for key, error in errors.items(): _LOG.error(...)
LoggedErrors(errors) == IF AnyError(errors) THEN DOMAIN errors ELSE {}

\* Mutant of AfterMessage: the loop ends with the last message of a response.
AfterMessageReturns == IF batch # <<>> THEN "batch" ELSE "done"

\* After the loop body: the next message, or the next receive.
AfterMessage == IF batch # <<>> THEN "batch" ELSE "receive"

\* The outcomes of the fetch and registration of the records of a body: one
\* for each record the filters select.
RegOutcomeVectors(body) ==
    {oc \in [1..Len(body.records) -> RegOutcomes \cup {NotAttempted}] :
        \A i \in 1..Len(body.records) :
            (oc[i] = NotAttempted) <=> ~Selected(body.records[i].key, prefix)}

\* The body of "for message in response.get('Messages')" of query_queue.
OrchHandleMessage ==
    /\ program = "orchestrate"
    /\ pc = "body"
    /\ \E msg \in Contents(message) :
          IF ~ChecksumValid(msg)
          THEN \* warning, then delete_message
               /\ last' = [NoLast EXCEPT !.id = message, !.msg = msg,
                                         !.deletes = OrchDeletes(FALSE, FALSE)]
               /\ AfterHandling(message, msg, OrchDeletes(FALSE, FALSE))
               /\ pc' = AfterMessage
               /\ UNCHANGED <<messages_processed, products_to_update>>
          ELSE \E oc \in RegOutcomeVectors(msg.body) :
               /\ messages_processed' = Counted(messages_processed)
               /\ LET res == ProcessMessage(msg.body, prefix, oc)
                      \* datasets, skipped, errors = ... raises ValueError
                      \* when the tuple has two elements
                      raises == res.raised \/ res.arity # 3
                      deletes == IF raises THEN 0
                                 ELSE OrchDeletes(TRUE, AnyError(res.errors))
                  IN  /\ last' = [id |-> message, msg |-> msg, valid |-> TRUE,
                                  result |-> res, decoded |-> TRUE,
                                  logged |-> IF raises THEN {}
                                             ELSE LoggedErrors(res.errors),
                                  deletes |-> deletes, raised |-> raises]
                      /\ products_to_update' =
                            IF raises THEN products_to_update
                            ELSE AddProducts(products_to_update, res.datasets)
                      /\ AfterHandling(message, msg, deletes)
                      /\ pc' = IF raises THEN "crashed" ELSE AfterMessage
    /\ UNCHANGED <<otherVars, archiveVars, drainVars, program, prefix, batch, message, range_calls>>

(* ------------------------------ the worker ----------------------------- *)

\* "Messages" not in response: more_mesages = False, processing_loop returns.
WorkerReceiveNone ==
    /\ program = "watch_queue"
    /\ pc = "receive"
    /\ Visible = {}
    /\ pc' = "done"
    /\ last' = NoLast
    /\ UNCHANGED <<otherVars, archiveVars, drainVars, program, prefix, msgs, qstate, batch, message, messages_processed,
                   products_to_update, range_calls>>

WorkerReceive ==
    /\ program = "watch_queue"
    /\ pc = "receive"
    /\ messages_processed < MaxProcessed
    /\ \E b \in Responses(MaxJobs) :
          /\ batch' = b
          /\ qstate' = Lease(b)
    /\ pc' = "batch"
    /\ last' = NoLast
    /\ UNCHANGED <<otherVars, archiveVars, drainVars, program, prefix, msgs, message, messages_processed,
                   products_to_update, range_calls>>

\* for message in response.get("Messages"): the next message of the response.
WorkerNextMessage ==
    /\ program = "watch_queue"
    /\ pc = "batch"
    /\ batch # <<>>
    /\ message' = Head(batch)
    /\ batch' = Tail(batch)
    /\ pc' = "body"
    /\ last' = NoLast
    /\ UNCHANGED <<otherVars, archiveVars, drainVars, program, prefix, msgs, qstate, messages_processed,
                   products_to_update, range_calls>>

\* The delete_message calls that the body of processing_loop's for loop makes
\* for a message that did not raise: one in the else branch of the checksum
\* test, one under "if not any(errors.values())" for a valid message.
WorkerDeletes(valid, anyError) == IF ~valid \/ ~anyError THEN 1 ELSE 0

\* The ways the calls run.main(key) of n selected keys can end; what follows
\* a call that raises is never run.
RunOutcomeVectors(n) ==
    {wo \in [1..n -> RunOutcomes] :
        \A i, j \in 1..n : (i < j /\ Propagates(wo[i])) => wo[j] = "ok"}

\* The body of "for message in response.get('Messages')" of processing_loop.
WorkerHandleMessage ==
    /\ program = "watch_queue"
    /\ pc = "body"
    /\ \E msg \in Contents(message) :
          IF ~ChecksumValid(msg)
          THEN /\ last' = [NoLast EXCEPT !.id = message, !.msg = msg,
                                         !.deletes = WorkerDeletes(FALSE, FALSE)]
               /\ AfterHandling(message, msg, WorkerDeletes(FALSE, FALSE))
               /\ pc' = AfterMessage
               /\ UNCHANGED messages_processed
          ELSE LET read == ReadMessage(msg.body, prefix)
                   n == IF read.arity = 3 THEN Len(read.datasets) ELSE 0
               IN  \E wo \in RunOutcomeVectors(n) :
                   LET res == IF read.arity = 3
                              THEN RunKeys(read.datasets, wo, 1, read)
                              ELSE read
                       \* datasets, skipped, errors = ... raises ValueError
                       \* when the tuple has two elements
                       raises == res.raised \/ res.arity # 3
                       deletes == IF raises THEN 0
                                  ELSE WorkerDeletes(TRUE, AnyError(res.errors))
                   IN  /\ last' = [id |-> message, msg |-> msg, valid |-> TRUE,
                                   result |-> res, decoded |-> TRUE,
                                   logged |-> IF raises THEN {}
                                              ELSE LoggedErrors(res.errors),
                                   deletes |-> deletes, raised |-> raises]
                       /\ AfterHandling(message, msg, deletes)
                       /\ messages_processed' = IF deletes > 0
                                                THEN messages_processed + 1
                                                ELSE messages_processed
                       /\ pc' = IF raises THEN "crashed" ELSE AfterMessage
    /\ UNCHANGED <<otherVars, archiveVars, drainVars, program, prefix, batch, message, products_to_update, range_calls>>

(* ---------------------------- specification ---------------------------- *)

Next ==
    \/ \E m \in MsgIds : VisibilityTimeout(m)
    \/ RunPending
    \/ OrchReceiveNone
    \/ OrchReceive
    \/ OrchNextMessage
    \/ OrchHandleMessage
    \/ WorkerReceiveNone
    \/ WorkerReceive
    \/ WorkerNextMessage
    \/ WorkerHandleMessage

Spec == Init /\ [][Next]_vars

(* The poll trigger keeps firing, the queue keeps redelivering, the consumer *)
(* keeps running, and a registration that is tried again and again          *)
(* eventually succeeds.                                                     *)
OrchHandleOk ==
    /\ OrchHandleMessage
    /\ last'.valid /\ ~last'.raised /\ ~AnyError(last'.result.errors)

FairSpec ==
    /\ Spec
    /\ \A m \in MsgIds : WF_vars(VisibilityTimeout(m))
    /\ WF_vars(RunPending)
    /\ WF_vars(OrchReceiveNone)
    /\ WF_vars(OrchReceive)
    /\ WF_vars(OrchNextMessage)
    /\ WF_vars(OrchHandleMessage)
    /\ SF_vars(OrchHandleOk)
    /\ WF_vars(WorkerReceiveNone)
    /\ WF_vars(WorkerReceive)
    /\ WF_vars(WorkerNextMessage)
    /\ WF_vars(WorkerHandleMessage)

(* ------------------------ the archival scheduler ------------------------ *)

DsIds == 1..NumDatasets
ArchiveProducts == {"p1", "p2"}

\* Times are days.  date(1970, 1, 1) is day 0, the orchestrator starts on
\* day Today, and a dataset's time is one of Times.
Epoch == 0
Today == 3
Times == {1, 4}
\* the days of an --archive pair
DaysOptions == {0, 1}

\* The lineage of the index: the sources of a dataset were indexed before it,
\* so they have lower ids.
Lineages ==
    {l \in [DsIds -> SUBSET DsIds] : \A d \in DsIds : l[d] \subseteq 1..(d - 1)}

Indexes ==
    {[d \in DsIds |-> [product |-> pt[d][1], time |-> pt[d][2], sources |-> l[d]]] :
        pt \in [DsIds -> ArchiveProducts \X Times], l \in Lineages}

\* The elements of a set of numbers in ascending order.
RECURSIVE Ascending(_)
Ascending(S) ==
    IF S = {}
    THEN <<>>
    ELSE LET m == CHOOSE x \in S : \A y \in S : x <= y
         IN  <<m>> \o Ascending(S \ {m})

Range(seq) == {seq[i] : i \in DOMAIN seq}

\* Mutant of Past: the cutoff lies days after now.
PastAhead(t, days) == t + days

\* past = datetime.now() - timedelta(days=days)
Past(t, days) == t - days

\* index.datasets.search_eager(product=product, time=[date(1970, 1, 1), past]):
\* the datasets of the product that are not archived and whose time is in
\* the range, ends included.
SearchEager(product, past) ==
    Ascending({d \in DsIds : /\ d \notin archived
                             /\ index[d].product = product
                             /\ Epoch <= index[d].time
                             /\ index[d].time <= past})

\* All that a dataset derives from, at any depth.
RECURSIVE Ancestors(_)
Ancestors(d) ==
    index[d].sources \cup UNION {Ancestors(s) : s \in index[d].sources}

\* Mutant of GetIds: the sources of the sources are yielded too.
RECURSIVE GetIdsDeep(_)
GetIdsDeep(datasets) ==
    IF datasets = <<>>
    THEN <<>>
    ELSE Ascending(Ancestors(Head(datasets))) \o <<Head(datasets)>>
            \o GetIdsDeep(Tail(datasets))

\* get_ids(datasets): for each dataset the ids of ds.sources.values(), then
\* its own id.
RECURSIVE GetIds(_)
GetIds(datasets) ==
    IF datasets = <<>>
    THEN <<>>
    ELSE Ascending(index[Head(datasets)].sources) \o <<Head(datasets)>>
            \o GetIds(Tail(datasets))

\* How a call archive_datasets(product, days, dc) ends: it returns ("ok"),
\* the search raises ("search_raises"), or, after the archive call,
\* add_product_range or update_cubedash raises ("range_raises").
ArchiveOutcomes == {"ok", "search_raises", "range_raises"}

\* archive_datasets(product, days, dc) with this outcome.
ArchiveDatasets(product, days, o) ==
    LET past == Past(now, days)
        datasets == IF o = "search_raises" THEN <<>> ELSE SearchEager(product, past)
        ids == GetIds(datasets)
    IN  /\ (o = "range_raises") => Len(datasets) > 0
        /\ archived' = IF Len(datasets) > 0 THEN archived \cup Range(ids) ELSE archived
        /\ arun' = [ran |-> TRUE, product |-> product, days |-> days, now |-> now,
                    outcome |-> o, before |-> archived, matched |-> datasets,
                    archive_calls |-> IF Len(datasets) > 0 THEN 1 ELSE 0,
                    ids |-> IF Len(datasets) > 0 THEN ids ELSE <<>>,
                    ranges |-> IF Len(datasets) > 0 THEN <<product>> ELSE <<>>]

\* One iteration of "for product, days in archive": do_archive() is run and
\* is then scheduled daily.  Nothing catches what it raises.
ArchiveAtStartup ==
    /\ program = "archive"
    /\ pc = "for"
    /\ todo # <<>>
    /\ \E o \in ArchiveOutcomes :
          /\ ArchiveDatasets(archive[Head(todo)][1], archive[Head(todo)][2], o)
          /\ pc' = IF o = "ok" THEN "for" ELSE "crashed"
    /\ todo' = Tail(todo)
    /\ UNCHANGED <<program, consumerVars, otherVars, drainVars, index, archive, now>>

\* The for loop is over: while True: schedule.run_pending(); sleep(1)
EnterMainLoop ==
    /\ program = "archive"
    /\ pc = "for"
    /\ todo = <<>>
    /\ pc' = "loop"
    /\ arun' = NoRun
    /\ UNCHANGED <<program, consumerVars, otherVars, drainVars, index, archived, archive, now, todo>>

\* The clock reaches archive_check_time of the next day: every job is due.
ArchiveCheckTime ==
    /\ program = "archive"
    /\ pc = "loop"
    /\ todo = <<>>
    /\ now < Today + MaxDays
    /\ now' = now + 1
    /\ todo' = [i \in 1..Len(archive) |-> i]
    /\ arun' = NoRun
    /\ UNCHANGED <<program, consumerVars, otherVars, drainVars, pc, index, archived, archive>>

\* schedule.run_pending() runs the next due job.  Nothing catches what it
\* raises.
RunPendingArchive ==
    /\ program = "archive"
    /\ pc = "loop"
    /\ todo # <<>>
    /\ \E o \in ArchiveOutcomes :
          /\ ArchiveDatasets(archive[Head(todo)][1], archive[Head(todo)][2], o)
          /\ pc' = IF o = "ok" THEN "loop" ELSE "crashed"
    /\ todo' = Tail(todo)
    /\ UNCHANGED <<program, consumerVars, otherVars, drainVars, index, archive, now>>

ArchiveNext ==
    \/ ArchiveAtStartup
    \/ EnterMainLoop
    \/ ArchiveCheckTime
    \/ RunPendingArchive

ArchiveStart ==
    /\ program = "archive"
    /\ pc = "for"
    /\ NoConsumer
    /\ NoDrain
    /\ NoOthers
    /\ archived = {}
    /\ now = Today
    /\ todo = [i \in 1..Len(archive) |-> i]
    /\ arun = NoRun

\* One --archive pair, on any index.
ArchiveInit ==
    /\ index \in Indexes
    /\ archive \in {<< <<"p1", days>> >> : days \in DaysOptions}
    /\ ArchiveStart

ArchiveSpec == ArchiveInit /\ [][ArchiveNext]_vars

\* From one to MaxPolicies --archive pairs, on an index without lineage.
SchedulerInit ==
    /\ index \in {i \in Indexes : \A d \in DsIds : i[d].sources = {}}
    /\ archive \in UNION {[1..n -> ArchiveProducts \X DaysOptions] : n \in 1..MaxPolicies}
    /\ ArchiveStart

SchedulerSpec == SchedulerInit /\ [][ArchiveNext]_vars

(* ------------------------ the dead-letter tools ------------------------- *)

DeadIds == 1..NumDead

\* A message body is a string, modelled by its characters; SQS lets a body
\* hold line feeds.
LF == "\n"
DeadBodies == {<<"a">>, <<"b">>, <<"a", LF, "b">>}

DeadQueues ==
    {[m \in DeadIds |-> [body |-> b[m], state |-> "visible"]] :
        b \in [DeadIds -> DeadBodies]}

DeadVisible == {m \in DeadIds : dlqueue[m].state = "visible"}

\* int(a_queue.attributes["ApproximateNumberOfMessages"]): the number of
\* visible messages, or a higher count read before the latest receives and
\* deletes took effect.
CountMessages == Cardinality(DeadVisible)..NumDead

\* The visibility timeout (10 s, 60 s) of a received message runs out.
DeadVisibilityTimeout(m) ==
    /\ program \in {"dead2living", "dead2file"}
    /\ pc \notin {"resent"}
    /\ dlqueue[m].state = "inflight"
    /\ dlqueue' = [dlqueue EXCEPT ![m].state = "visible"]
    /\ UNCHANGED <<program, pc, consumerVars, otherVars, archiveVars, queue, f, n_messages,
                   dl_response, dl_message, received>>

\* The tool is stopped, or a call of it fails, before its next statement.
ToolStops ==
    /\ program \in {"dead2living", "dead2file"}
    /\ pc \notin {"done", "stopped", "resent"}
    /\ pc' = "stopped"
    /\ UNCHANGED <<program, consumerVars, otherVars, archiveVars, drainVars>>

\* Mutant of Dead2LivingSteps: the message is deleted before it is sent.
DeleteBeforeSend == <<"delete", "send">>

\* The statements of dead2living after the receive, in order:
\* queue.send_message(MessageBody=message.body), then message.delete().
Dead2LivingSteps == <<"send", "delete">>

\* The statement after statement k of Dead2LivingSteps; after the last one
\* dead2living returns to the while loop.
AfterStep(k) == IF k < Len(Dead2LivingSteps) THEN Dead2LivingSteps[k + 1] ELSE "count"
StepAt == CHOOSE k \in DOMAIN Dead2LivingSteps : Dead2LivingSteps[k] = pc

\* n_messages = count_messages(dlqueue); while n_messages > 0
Dead2LivingCount ==
    /\ program = "dead2living"
    /\ pc = "count"
    /\ \E c \in CountMessages :
          /\ n_messages' = c
          /\ pc' = IF c > 0 THEN "receive" ELSE "done"
    /\ UNCHANGED <<program, consumerVars, otherVars, archiveVars, dlqueue, queue, f,
                   dl_response, dl_message, received>>

\* dlqueue.receive_messages(VisibilityTimeout=10, MaxNumberOfMessages=1)
\* returns a message.
Dead2LivingReceive ==
    /\ program = "dead2living"
    /\ pc = "receive"
    /\ \E m \in DeadVisible :
          /\ dlqueue' = [dlqueue EXCEPT ![m].state = "inflight"]
          /\ dl_message' = m
    /\ dl_response' = "message"
    /\ pc' = Dead2LivingSteps[1]
    /\ UNCHANGED <<program, consumerVars, otherVars, archiveVars, queue, f, n_messages, received>>

\* The receive returns nothing (a short poll may do so while messages are
\* visible): "if not messages: return", back to the while loop.
Dead2LivingReceiveNone ==
    /\ program = "dead2living"
    /\ pc = "receive"
    /\ dl_response' = "empty"
    /\ dl_message' = 0
    /\ pc' = "count"
    /\ UNCHANGED <<program, consumerVars, otherVars, archiveVars, dlqueue, queue, f,
                   n_messages, received>>

\* queue.send_message(MessageBody=message.body)
Dead2LivingSend ==
    /\ program = "dead2living"
    /\ pc = "send"
    /\ queue' = Append(queue, dlqueue[dl_message].body)
    /\ pc' = AfterStep(StepAt)
    /\ UNCHANGED <<program, consumerVars, otherVars, archiveVars, dlqueue, f, n_messages,
                   dl_response, dl_message, received>>

\* message.delete()
Dead2LivingDelete ==
    /\ program = "dead2living"
    /\ pc = "delete"
    /\ dlqueue' = [dlqueue EXCEPT ![dl_message].state = "deleted"]
    /\ pc' = AfterStep(StepAt)
    /\ UNCHANGED <<program, consumerVars, otherVars, archiveVars, queue, f, n_messages,
                   dl_response, dl_message, received>>

\* dead2file: n_messages = count_messages(dlqueue); while n_messages > 0;
\* f.close() after the loop.
Dead2FileCount ==
    /\ program = "dead2file"
    /\ pc = "count"
    /\ \E c \in CountMessages :
          /\ n_messages' = c
          /\ pc' = IF c > 0 THEN "getmessage" ELSE "done"
    /\ UNCHANGED <<program, consumerVars, otherVars, archiveVars, dlqueue, queue, f,
                   dl_response, dl_message, received>>

\* f.write(message + '\n')
Write(file, body) == file \o body \o <<LF>>

\* message = getmessage() returns a body: the receive
\* (VisibilityTimeout=60, MaxNumberOfMessages=1) gave a message, which is
\* neither sent nor deleted; the body is written to the file.
Dead2FileGetMessage ==
    /\ program = "dead2file"
    /\ pc = "getmessage"
    /\ Len(received) < MaxWrites
    /\ \E m \in DeadVisible :
          /\ dlqueue' = [dlqueue EXCEPT ![m].state = "inflight"]
          /\ dl_message' = m
          /\ received' = Append(received, m)
          /\ f' = Write(f, dlqueue[m].body)
    /\ dl_response' = "message"
    /\ pc' = "count"
    /\ UNCHANGED <<program, consumerVars, otherVars, archiveVars, queue, n_messages>>

\* getmessage() returns None: break, f.close().
Dead2FileGetNone ==
    /\ program = "dead2file"
    /\ pc = "getmessage"
    /\ dl_response' = "empty"
    /\ dl_message' = 0
    /\ pc' = "done"
    /\ UNCHANGED <<program, consumerVars, otherVars, archiveVars, dlqueue, queue, f,
                   n_messages, received>>

\* The lines of a file, without their line feeds.
RECURSIVE SplitLines(_, _)
SplitLines(chars, line) ==
    IF chars = <<>>
    THEN IF line = <<>> THEN <<>> ELSE <<line>>
    ELSE IF Head(chars) = LF
         THEN <<line>> \o SplitLines(Tail(chars), <<>>)
         ELSE SplitLines(Tail(chars), Append(line, Head(chars)))

Lines(file) == SplitLines(file, <<>>)

\* After the drain to the file: each line of the file is sent to the live
\* queue.
ResendFile ==
    /\ program = "dead2file"
    /\ pc = "done"
    /\ queue' = queue \o Lines(f)
    /\ pc' = "resent"
    /\ UNCHANGED <<program, consumerVars, otherVars, archiveVars, dlqueue, f, n_messages,
                   dl_response, dl_message, received>>

DrainNext ==
    \/ \E m \in DeadIds : DeadVisibilityTimeout(m)
    \/ ToolStops
    \/ Dead2LivingCount
    \/ Dead2LivingReceive
    \/ Dead2LivingReceiveNone
    \/ Dead2LivingSend
    \/ Dead2LivingDelete
    \/ Dead2FileCount
    \/ Dead2FileGetMessage
    \/ Dead2FileGetNone
    \/ ResendFile

DrainInit ==
    /\ program \in {"dead2living", "dead2file"}
    /\ pc = "count"
    /\ NoConsumer
    /\ NoArchival
    /\ NoOthers
    /\ dlqueue \in DeadQueues
    /\ queue = <<>>
    /\ f = <<>>
    /\ n_messages = 0
    /\ dl_response = "none"
    /\ dl_message = 0
    /\ received = <<>>

DrainSpec == DrainInit /\ [][DrainNext]_vars

(* ----------------------------- add_to_queue ----------------------------- *)

\* The keys under BUCKET/PATH, in listing order: key i has one of two endings.
Endings == {".xml", ".txt"}
KeyListings ==
    UNION {{[i \in 1..n |-> <<"usgs", i, e[i]>>] : e \in [1..n -> Endings]} :
              n \in 0..MaxKeys}

\* The pages of s3.list_objects_v2: at most PageSize keys each; a listing
\* without keys is one response without 'Contents'.
PagesOf(keys) ==
    IF keys = <<>>
    THEN << <<>> >>
    ELSE [p \in 1..((Len(keys) + PageSize - 1) \div PageSize) |->
            SubSeq(keys, (p - 1) * PageSize + 1,
                   IF p * PageSize < Len(keys) THEN p * PageSize ELSE Len(keys))]

\* key.endswith(suffix)
EndsWith(key, suf) ==
    /\ Len(suf) <= Len(key)
    /\ SubSeq(key, Len(key) - Len(suf) + 1, Len(key)) = suf

Suffixes == {<<>>, <<".xml">>}

\* get_matching_s3_keys after the object at cursor c: the next object of the
\* page, the first of the next page (ContinuationToken), or <<0, 0>> when
\* the response has no NextContinuationToken.
NextCursor(c) ==
    IF c[2] < Len(pages[c[1]]) THEN <<c[1], c[2] + 1>>
    ELSE IF c[1] < Len(pages) THEN <<c[1] + 1, 1>>
    ELSE <<0, 0>>

AfterObject(c) == IF NextCursor(c) = <<0, 0>> THEN "done" ELSE "for"

\* get_items: count = 0, the first s3.list_objects_v2 call of the generator;
\* resp['Contents'] raises KeyError for a response without keys.
GetItemsStart ==
    /\ program = "add_to_queue"
    /\ pc = "start"
    /\ count' = 0
    /\ IF pages[1] = <<>>
       THEN pc' = "crashed" /\ cursor' = cursor
       ELSE pc' = "for" /\ cursor' = <<1, 1>>
    /\ UNCHANGED <<program, consumerVars, archiveVars, drainVars, poolVars, timedVars,
                   pages, limit, suffix>>

\* The generator passes over a key that does not end with the suffix.
GetItemsSkip ==
    /\ program = "add_to_queue"
    /\ pc = "for"
    /\ ~EndsWith(pages[cursor[1]][cursor[2]], suffix)
    /\ cursor' = NextCursor(cursor)
    /\ pc' = AfterObject(cursor)
    /\ UNCHANGED <<program, consumerVars, archiveVars, drainVars, poolVars, timedVars,
                   pages, limit, suffix, count>>

\* The break test of get_items on the incremented count.
LimitReached(n, lim) == n >= lim

\* for item in items: count += 1; if count >= limit: break;
\* queue.send_message(MessageBody=item)
GetItemsItem ==
    /\ program = "add_to_queue"
    /\ pc = "for"
    /\ EndsWith(pages[cursor[1]][cursor[2]], suffix)
    /\ count' = count + 1
    /\ IF LimitReached(count + 1, limit)
       THEN /\ pc' = "done"
            /\ UNCHANGED <<queue, cursor>>
       ELSE /\ queue' = Append(queue, pages[cursor[1]][cursor[2]])
            /\ cursor' = NextCursor(cursor)
            /\ pc' = AfterObject(cursor)
    /\ UNCHANGED <<program, consumerVars, archiveVars, poolVars, timedVars,
                   dlqueue, f, n_messages, dl_response, dl_message, received,
                   pages, limit, suffix>>

AdderNext ==
    \/ GetItemsStart
    \/ GetItemsSkip
    \/ GetItemsItem

AdderInit ==
    /\ program = "add_to_queue"
    /\ pc = "start"
    /\ NoConsumer
    /\ NoArchival
    /\ NoDrain
    /\ pages \in {PagesOf(keys) : keys \in KeyListings}
    /\ limit \in 0..MaxLimit
    /\ suffix \in Suffixes
    /\ count = 0
    /\ cursor = <<0, 0>>
    /\ workers = <<>>
    /\ leases = <<>>
    /\ ran = <<>>
    /\ clock = 0
    /\ start_time = 0
    /\ received_at = 0
    /\ job_check = NoJobCheck

AdderSpec == AdderInit /\ [][AdderNext]_vars

(* --------------------------- the worker pool ---------------------------- *)

WorkerIds == 1..NumWorkers

\* What the messages of the pool's queue hold in one run: one record, no
\* Records field, or a body that does not match its digest.
PoolMessages ==
    {[body |-> [hasRecords |-> TRUE, records |-> <<RecordOf(KeyX)>>],
      md5 |-> Md5([hasRecords |-> TRUE, records |-> <<RecordOf(KeyX)>>])],
     [body |-> NoRecordsBody, md5 |-> Md5(NoRecordsBody)],
     [body |-> CorruptBody, md5 |-> MissingMd5]}

\* The number of leases that ran out so far.
RECURSIVE Expiries(_)
Expiries(ms) ==
    IF ms = {} THEN 0
    ELSE LET m == CHOOSE x \in ms : TRUE
         IN  leases[m].expired + Expiries(ms \ {m})

\* The ways the body of processing_loop's for loop can go for a message:
\* the keys passed to run.main, whether an exception left the loop, and the
\* delete_message calls.
HandlingOutcomes(msg) ==
    IF ~ChecksumValid(msg)
    THEN {[calls |-> <<>>, raises |-> FALSE, deletes |-> WorkerDeletes(FALSE, FALSE)]}
    ELSE LET read == ReadMessage(msg.body, prefix)
             n == IF read.arity = 3 THEN Len(read.datasets) ELSE 0
             res(wo) == IF read.arity = 3 THEN RunKeys(read.datasets, wo, 1, read) ELSE read
             raises(wo) == res(wo).raised \/ res(wo).arity # 3
         IN  {[calls |-> res(wo).calls,
               raises |-> raises(wo),
               deletes |-> IF raises(wo) THEN 0
                           ELSE WorkerDeletes(TRUE, AnyError(res(wo).errors))] :
                 wo \in RunOutcomeVectors(n)}

NoLease == [holder |-> 0, receives |-> 0, expired |-> 0, deleter |-> 0]

\* The visibility timeout (job_max_time) of a received message runs out
\* before it is deleted.
PoolVisibilityTimeout(m) ==
    /\ program = "worker_pool"
    /\ qstate[m] = "inflight"
    /\ Expiries(MsgIds) < MaxExpiries
    /\ qstate' = [qstate EXCEPT ![m] = "visible"]
    /\ leases' = [leases EXCEPT ![m].expired = @ + 1]
    /\ UNCHANGED <<program, pc, prefix, msgs, batch, message, messages_processed,
                   products_to_update, range_calls, last, archiveVars, drainVars,
                   adderVars, timedVars, workers, ran>>

\* Worker w: "Messages" not in response, processing_loop returns.
PoolReceiveNone(w) ==
    /\ program = "worker_pool"
    /\ workers[w].pc = "receive"
    /\ Visible = {}
    /\ workers' = [workers EXCEPT ![w].pc = "done"]
    /\ UNCHANGED <<program, pc, consumerVars, archiveVars, drainVars, adderVars,
                   timedVars, leases, ran>>

\* Worker w: sqs.receive_message(..., VisibilityTimeout=job_max_time,
\* MaxNumberOfMessages=max_jobs) returns messages, which are leased to w.
PoolReceive(w) ==
    /\ program = "worker_pool"
    /\ workers[w].pc = "receive"
    /\ \E b \in Responses(MaxJobs) :
          /\ qstate' = Lease(b)
          /\ leases' = [m \in MsgIds |->
                          IF m \in Range(b)
                          THEN [leases[m] EXCEPT !.holder = w, !.receives = @ + 1]
                          ELSE leases[m]]
          /\ workers' = [workers EXCEPT ![w] = [pc |-> "batch", batch |-> b]]
    /\ UNCHANGED <<program, pc, prefix, msgs, batch, message, messages_processed,
                   products_to_update, range_calls, last, archiveVars, drainVars,
                   adderVars, timedVars, ran>>

\* delete_message with the receipt handle worker w got: the message is
\* deleted when the handle is the latest one given out; with an older handle
\* the request succeeds and the message may or may not be deleted.
DeleteEffects(m, w) == IF leases[m].holder = w THEN {TRUE} ELSE {TRUE, FALSE}

\* Worker w: the body of the for loop for the next message of its response.
PoolHandleMessage(w) ==
    /\ program = "worker_pool"
    /\ workers[w].pc = "batch"
    /\ LET m == Head(workers[w].batch)
           rest == Tail(workers[w].batch)
       IN  \E o \in HandlingOutcomes(msgs[m]) :
           \E deleted \in IF o.deletes > 0 THEN DeleteEffects(m, w) ELSE {FALSE} :
              /\ ran' = IF o.calls # <<>> THEN [ran EXCEPT ![m] = Append(@, w)] ELSE ran
              /\ qstate' = IF deleted THEN DeleteFromQueue(m) ELSE qstate
              /\ leases' = IF deleted THEN [leases EXCEPT ![m].deleter = w] ELSE leases
              /\ workers' = [workers EXCEPT ![w] =
                    IF o.raises THEN [pc |-> "crashed", batch |-> <<>>]
                    ELSE [pc |-> IF rest = <<>> THEN "receive" ELSE "batch",
                          batch |-> rest]]
    /\ UNCHANGED <<program, pc, prefix, msgs, batch, message, messages_processed,
                   products_to_update, range_calls, last, archiveVars, drainVars,
                   adderVars, timedVars>>

PoolNext ==
    \/ \E m \in MsgIds : PoolVisibilityTimeout(m)
    \/ \E w \in WorkerIds : PoolReceiveNone(w)
    \/ \E w \in WorkerIds : PoolReceive(w)
    \/ \E w \in WorkerIds : PoolHandleMessage(w)

PoolInit ==
    /\ program = "worker_pool"
    /\ pc = "pool"
    /\ prefix = PrefixNone
    /\ \E c \in PoolMessages : msgs = [m \in MsgIds |-> c]
    /\ qstate = [m \in MsgIds |-> "visible"]
    /\ batch = <<>>
    /\ message = 0
    /\ messages_processed = 0
    /\ products_to_update = <<>>
    /\ range_calls = <<>>
    /\ last = NoLast
    /\ NoArchival
    /\ NoDrain
    /\ pages = <<>>
    /\ limit = 0
    /\ suffix = <<>>
    /\ count = 0
    /\ cursor = <<0, 0>>
    /\ workers = [w \in WorkerIds |-> [pc |-> "receive", batch |-> <<>>]]
    /\ leases = [m \in MsgIds |-> NoLease]
    /\ ran = [m \in MsgIds |-> <<>>]
    /\ clock = 0
    /\ start_time = 0
    /\ received_at = 0
    /\ job_check = NoJobCheck

PoolSpec == PoolInit /\ [][PoolNext]_vars

(* ------------------------- the worker and its clock --------------------- *)

\* A notification is sent to the queue while the worker runs.
TimedArrive(m) ==
    /\ program = "watch_queue_timed"
    /\ qstate[m] = "unsent"
    /\ qstate' = [qstate EXCEPT ![m] = "visible"]
    /\ UNCHANGED <<program, pc, prefix, msgs, batch, message, messages_processed,
                   products_to_update, range_calls, last, archiveVars, drainVars,
                   adderVars, poolVars, timedVars>>

\* Time passes: while receive_message waits on an empty queue, for at most
\* WaitTimeSeconds, and while the body of the for loop works on a message.
TimedTick ==
    /\ program = "watch_queue_timed"
    /\ clock < MaxClock
    /\ \/ pc = "poll" /\ Visible = {} /\ clock - start_time < SqsPollTime
       \/ pc = "body"
    /\ clock' = clock + 1
    /\ UNCHANGED <<program, pc, consumerVars, archiveVars, drainVars, adderVars,
                   poolVars, start_time, received_at, job_check>>

\* start_time = time.time(), then receive_message is called.
TimedStart ==
    /\ program = "watch_queue_timed"
    /\ pc = "start"
    /\ start_time' = clock
    /\ pc' = "poll"
    /\ UNCHANGED <<program, consumerVars, archiveVars, drainVars, adderVars,
                   poolVars, clock, received_at, job_check>>

\* The wait time is over and the queue is empty: processing_loop returns.
TimedReceiveNone ==
    /\ program = "watch_queue_timed"
    /\ pc = "poll"
    /\ Visible = {}
    /\ clock - start_time >= SqsPollTime
    /\ pc' = "done"
    /\ UNCHANGED <<program, consumerVars, archiveVars, drainVars, adderVars,
                   poolVars, timedVars>>

\* receive_message returns messages; their visibility timeout starts now.
TimedReceive ==
    /\ program = "watch_queue_timed"
    /\ pc = "poll"
    /\ \E b \in Responses(MaxJobs) :
          /\ qstate' = Lease(b)
          /\ batch' = b
    /\ received_at' = clock
    /\ pc' = "batch"
    /\ UNCHANGED <<program, prefix, msgs, message, messages_processed,
                   products_to_update, range_calls, last, archiveVars, drainVars,
                   adderVars, poolVars, clock, start_time, job_check>>

\* for message in response.get("Messages")
TimedNextMessage ==
    /\ program = "watch_queue_timed"
    /\ pc = "batch"
    /\ IF batch = <<>>
       THEN /\ pc' = "start"
            /\ UNCHANGED <<batch, message>>
       ELSE /\ message' = Head(batch)
            /\ batch' = Tail(batch)
            /\ pc' = "body"
    /\ UNCHANGED <<program, prefix, msgs, qstate, messages_processed,
                   products_to_update, range_calls, last, archiveVars, drainVars,
                   adderVars, poolVars, timedVars>>

\* job_time = time.time() - start_time; if job_time > job_max_time: the error
\* "Exceeded max job time" is logged. Only the branch that deleted a validated
\* message measures.
JobCheck(m, valid) ==
    [id |-> m,
     timed |-> valid,
     job_time |-> IF valid THEN clock - start_time ELSE 0,
     logged |-> valid /\ clock - start_time > JobMaxTime,
     held |-> clock - received_at]

\* The rest of the body of the for loop.
TimedHandleMessage ==
    /\ program = "watch_queue_timed"
    /\ pc = "body"
    /\ \E o \in HandlingOutcomes(msgs[message]) :
          /\ qstate' = IF o.deletes > 0 THEN DeleteFromQueue(message) ELSE qstate
          /\ job_check' = IF o.deletes > 0
                          THEN JobCheck(message, ChecksumValid(msgs[message]))
                          ELSE job_check
          /\ messages_processed' = IF o.deletes > 0 /\ ChecksumValid(msgs[message])
                                   THEN messages_processed + 1
                                   ELSE messages_processed
          /\ pc' = IF o.raises THEN "crashed" ELSE "batch"
    /\ UNCHANGED <<program, prefix, msgs, batch, message, products_to_update,
                   range_calls, last, archiveVars, drainVars, adderVars, poolVars,
                   clock, start_time, received_at>>

TimedNext ==
    \/ \E m \in MsgIds : TimedArrive(m)
    \/ TimedTick
    \/ TimedStart
    \/ TimedReceiveNone
    \/ TimedReceive
    \/ TimedNextMessage
    \/ TimedHandleMessage

TimedInit ==
    /\ program = "watch_queue_timed"
    /\ pc = "start"
    /\ prefix = PrefixNone
    /\ \E c \in PoolMessages : msgs = [m \in MsgIds |-> c]
    /\ qstate \in [MsgIds -> {"visible", "unsent"}]
    /\ batch = <<>>
    /\ message = 0
    /\ messages_processed = 0
    /\ products_to_update = <<>>
    /\ range_calls = <<>>
    /\ last = NoLast
    /\ NoArchival
    /\ NoDrain
    /\ NoOthers

TimedSpec == TimedInit /\ [][TimedNext]_vars

(* ------------------ main: the queue job and the archive jobs ------------ *)

\* The notification of one new object.
Notification ==
    [body |-> [hasRecords |-> TRUE, records |-> <<RecordOf(KeyX)>>],
     md5 |-> Md5([hasRecords |-> TRUE, records |-> <<RecordOf(KeyX)>>])]

\* A new notification is sent to the live queue.
Arrive(m) ==
    /\ program = "orchestrate"
    /\ archive # <<>>
    /\ qstate[m] = "deleted"
    /\ qstate' = [qstate EXCEPT ![m] = "visible"]
    /\ msgs' = [msgs EXCEPT ![m] = Notification]
    /\ UNCHANGED <<otherVars, archiveVars, drainVars, program, prefix, pc, batch,
                   message, messages_processed, products_to_update, range_calls, last>>

\* One iteration of "for product, days in archive" in a main that also has
\* the queue job: do_archive() is run and is then scheduled daily.
MainArchiveAtStartup ==
    /\ program = "orchestrate"
    /\ pc = "for"
    /\ todo # <<>>
    /\ \E o \in ArchiveOutcomes :
          /\ ArchiveDatasets(archive[Head(todo)][1], archive[Head(todo)][2], o)
          /\ pc' = IF o = "ok" THEN "for" ELSE "crashed"
    /\ todo' = Tail(todo)
    /\ UNCHANGED <<otherVars, drainVars, program, prefix, msgs, qstate, batch, message,
                   messages_processed, products_to_update, range_calls, last,
                   index, archive, now>>

\* The for loop is over: while True: schedule.run_pending(); sleep(1)
MainEnterLoop ==
    /\ program = "orchestrate"
    /\ pc = "for"
    /\ todo = <<>>
    /\ pc' = "idle"
    /\ arun' = NoRun
    /\ UNCHANGED <<otherVars, drainVars, program, prefix, msgs, qstate, batch, message,
                   messages_processed, products_to_update, range_calls, last,
                   index, archived, archive, now, todo>>

\* The clock reaches archive_check_time of the next day, whatever main is
\* doing: every archive job is due.
MainArchiveCheckTime ==
    /\ program = "orchestrate"
    /\ archive # <<>>
    /\ pc \in {"idle", "receive", "batch", "body"}
    /\ todo = <<>>
    /\ now < Today + MaxDays
    /\ now' = now + 1
    /\ todo' = [i \in 1..Len(archive) |-> i]
    /\ arun' = NoRun
    /\ UNCHANGED <<otherVars, drainVars, program, prefix, msgs, qstate, pc, batch, message,
                   messages_processed, products_to_update, range_calls, last,
                   index, archived, archive>>

\* schedule.run_pending() runs the next due archive job.
MainRunPendingArchive ==
    /\ program = "orchestrate"
    /\ pc = "idle"
    /\ todo # <<>>
    /\ \E o \in ArchiveOutcomes :
          /\ ArchiveDatasets(archive[Head(todo)][1], archive[Head(todo)][2], o)
          /\ pc' = IF o = "ok" THEN "idle" ELSE "crashed"
    /\ todo' = Tail(todo)
    /\ UNCHANGED <<otherVars, drainVars, program, prefix, msgs, qstate, batch, message,
                   messages_processed, products_to_update, range_calls, last,
                   index, archive, now>>

MainNext ==
    \/ \E m \in MsgIds : Arrive(m)
    \/ MainArchiveAtStartup
    \/ MainEnterLoop
    \/ MainArchiveCheckTime
    \/ MainRunPendingArchive
    \/ RunPending
    \/ OrchReceiveNone
    \/ OrchReceive
    \/ OrchNextMessage
    \/ OrchHandleMessage

\* main with --queue and one --archive pair, on an index of p1 datasets
\* without lineage; the live queue holds notifications.
MainInit ==
    /\ program = "orchestrate"
    /\ pc = "for"
    /\ prefix = PrefixNone
    /\ msgs = [m \in MsgIds |-> Notification]
    /\ qstate = [m \in MsgIds |-> "visible"]
    /\ batch = <<>>
    /\ message = 0
    /\ messages_processed = 0
    /\ products_to_update = <<>>
    /\ range_calls = <<>>
    /\ last = NoLast
    /\ index \in {i \in Indexes : \A d \in DsIds : i[d].sources = {} /\ i[d].product = "p1"}
    /\ archive \in {<< <<"p1", days>> >> : days \in DaysOptions}
    /\ archived = {}
    /\ now = Today
    /\ todo = [i \in 1..Len(archive) |-> i]
    /\ arun = NoRun
    /\ NoDrain
    /\ NoOthers

MainSpec == MainInit /\ [][MainNext]_vars

\* The scheduler runs every job that is due when run_pending is called, and
\* every step of the program is taken in the end; nothing is assumed of the
\* arrival of notifications.
FairMainSpec ==
    /\ MainSpec
    /\ WF_vars(MainArchiveAtStartup)
    /\ WF_vars(MainEnterLoop)
    /\ SF_vars(MainRunPendingArchive)
    /\ WF_vars(RunPending)
    /\ WF_vars(OrchReceiveNone)
    /\ WF_vars(OrchReceive)
    /\ WF_vars(OrchNextMessage)
    /\ WF_vars(OrchHandleMessage)

(* ------------------------------- claims -------------------------------- *)

IsOrch == program = "orchestrate"
IsWorker == program = "watch_queue"

\* The loop body has just run for message last.id, whose content is last.msg.
Handled == last.id # 0
Md5Matches == last.msg.md5 = Md5(last.msg.body)
HasRecords == last.msg.body.hasRecords
Records == last.msg.body.records
Deleted == qstate[last.id] = "deleted"

\* The keys of the records the filters select, in the order of the records.
RECURSIVE SelectedKeys(_)
SelectedKeys(records) ==
    IF records = <<>>
    THEN <<>>
    ELSE (IF Selected(Head(records).key, prefix)
          THEN <<Head(records).key>> ELSE <<>>) \o SelectedKeys(Tail(records))

\* Every selected key was registered (processed), and none failed.
AllSucceeded ==
    /\ last.result.calls = SelectedKeys(Records)
    /\ \A i \in 1..Len(last.result.outcomes) : last.result.outcomes[i] = "ok"

\* Some registration that was attempted failed.
SomeFailed ==
    \E i \in 1..Len(last.result.outcomes) : last.result.outcomes[i] # "ok"

\* C1: in both consumer loops, a message whose MD5OfBody differs from the MD5
\* of its body is deleted, and neither the decoder (process_message,
\* read_message) nor a registration or run.main call is made for it.
C1_ChecksumMismatchDiscarded ==
    (Handled /\ ~Md5Matches) =>
        /\ last.deletes = 1
        /\ Deleted
        /\ ~last.decoded
        /\ last.result.calls = <<>>

C1_Witness == IsWorker /\ Handled /\ ~Md5Matches /\ Deleted

\* C2 (as claimed): in query_queue, delete_message is not called for a
\* checksum-valid message for which process_message reported an error.
C2_RetainedOnError ==
    (IsOrch /\ Handled /\ Md5Matches /\ ~last.raised /\ AnyError(last.result.errors)) =>
        /\ last.deletes = 0
        /\ ~Deleted

\* C3: in query_queue, a checksum-valid message all of whose selected keys
\* register without error is deleted by exactly one delete_message call.
C3_DeletedOnceWhenAllOk ==
    (IsOrch /\ Handled /\ Md5Matches /\ HasRecords /\ AllSucceeded) =>
        /\ last.deletes = 1
        /\ Deleted

C3_Witness ==
    /\ IsOrch /\ Handled /\ Md5Matches /\ HasRecords /\ AllSucceeded
    /\ Len(last.result.calls) = 2
    /\ Deleted

\* C4 (as claimed): in processing_loop, a checksum-valid message is deleted
\* if and only if run.main succeeded for every selected key.
C4_DeletedIffAllSucceeded ==
    (IsWorker /\ Handled /\ Md5Matches /\ HasRecords) =>
        ((last.deletes > 0) <=> AllSucceeded)

\* C5 (as claimed): in the orchestrator, a checksum-valid message whose
\* registration failed is eventually registered without error, as long as the
\* orchestrator keeps running.
C5_FailedEventuallyRegistered ==
    \A m \in MsgIds :
        (IsOrch /\ last.id = m /\ Md5Matches /\ HasRecords /\ SomeFailed)
            ~> (\/ last.id = m /\ Md5Matches /\ HasRecords /\ AllSucceeded
                \/ pc = "crashed")

\* C6: in both consumer loops, a checksum-valid message whose payload has no
\* Records field is not deleted by the consumer.
C6_NoRecordsRetained ==
    (Handled /\ Md5Matches /\ ~HasRecords) =>
        /\ last.deletes = 0
        /\ ~Deleted

C6_Witness == IsOrch /\ Handled /\ Md5Matches /\ ~HasRecords /\ ~Deleted

\* C7 (as claimed): in both consumer loops, a checksum-valid message without
\* Records is an ordinary failure: the error no_record is logged and the loop
\* goes on, the consumer does not abort.
C7_NoRecordsLoggedAndLoopGoesOn ==
    (Handled /\ Md5Matches /\ ~HasRecords) =>
        /\ ~last.raised
        /\ pc # "crashed"
        /\ last.logged = {NoRecordKey}

\* C8: in process_message, every selected record is attempted, whatever
\* happened to the records before it, and a failure is that key's error: it
\* does not leave process_message.
C8_EveryRecordAttempted ==
    (IsOrch /\ Handled /\ Md5Matches /\ HasRecords) =>
        /\ last.result.calls = SelectedKeys(Records)
        /\ ~last.raised
        /\ LET n == Len(last.result.calls)
           IN  (n > 0 /\ last.result.outcomes[n] # "ok")
                   => last.result.errors[last.result.calls[n]] # None

C8_Witness ==
    /\ IsOrch /\ Handled /\ Md5Matches /\ HasRecords
    /\ Len(last.result.calls) = 2
    /\ last.result.outcomes = <<"exception", "ok">>

\* C9 (as claimed): in processing_loop, a run.main call that raises or exits
\* does not abandon the batch: the other keys of the message are processed
\* and the loop goes on.
C9_FailureDoesNotAbandonBatch ==
    (IsWorker /\ Handled /\ Md5Matches /\ HasRecords) =>
        /\ last.result.calls = SelectedKeys(Records)
        /\ ~last.raised
        /\ pc # "crashed"

\* C10: in both consumer loops, a checksum-valid message with a Records list
\* all of whose records the filters exclude makes no registration or
\* processing call, has no error, and is deleted.
C10_AllSkippedIsSuccess ==
    (Handled /\ Md5Matches /\ HasRecords /\ SelectedKeys(Records) = <<>>) =>
        /\ last.result.calls = <<>>
        /\ DOMAIN last.result.errors = {}
        /\ last.result.skipped = Len(Records)
        /\ last.deletes = 1
        /\ Deleted

C10_Witness ==
    /\ IsWorker /\ Handled /\ Md5Matches /\ HasRecords
    /\ Len(Records) = 2 /\ SelectedKeys(Records) = <<>>
    /\ Deleted

\* What the decoder selected of the message just handled: the keys
\* process_message fetched and registered, the keys read_message returned.
DecoderSelection == IF IsOrch THEN last.result.calls ELSE last.result.datasets

\* The filter set is None or empty, or the key matches at least one filter.
FilterAdmits(key) ==
    \/ prefix.isNone
    \/ prefix.pats = <<>>
    \/ \E p \in {prefix.pats[j] : j \in DOMAIN prefix.pats} : PurePathMatch(key, p)

\* The keys of the admitted records, in the order of the records.
AdmittedKeys(records) ==
    LET idx == {i \in DOMAIN records : FilterAdmits(records[i].key)}
        RECURSIVE Upto(_)
        Upto(n) == IF n = 0 THEN <<>>
                   ELSE Upto(n - 1) \o (IF n \in idx THEN <<records[n].key>> ELSE <<>>)
    IN  Upto(Len(records))

\* C11: for a body with a Records list, the decoder of either consumer
\* selects exactly the records whose key the filter set admits (filter set
\* None or empty, or some filter matches), in the order of the records;
\* every other record is counted as skipped and has no error entry, and
\* selected plus skipped is the number of records.
C11_SelectionBySomeFilter ==
    (Handled /\ last.decoded /\ HasRecords) =>
        /\ DecoderSelection = AdmittedKeys(Records)
        /\ last.result.skipped =
              Cardinality({i \in DOMAIN Records : ~FilterAdmits(Records[i].key)})
        /\ Len(DecoderSelection) + last.result.skipped = Len(Records)
        /\ \A k \in DOMAIN last.result.errors :
              \E i \in DOMAIN Records : Records[i].key = k /\ FilterAdmits(k)

\* A two-record body under two filters: one record matches the second filter
\* only and is selected, the other matches none and is skipped.
C11_Witness ==
    /\ Handled /\ last.decoded /\ HasRecords
    /\ Len(prefix.pats) = 2
    /\ Len(Records) = 2
    /\ Len(DecoderSelection) = 1
    /\ last.result.skipped = 1

\* C12: processing_loop returns normally at the first receive that gives no
\* message, and only there: after a receive that gave a message it polls
\* again before it can return.
C12_WorkerReturnsOnEmptyReceive ==
    [][IsWorker =>
          /\ (pc' = "done" /\ pc # "done") => (pc = "receive" /\ Visible = {})
          /\ (pc = "receive" /\ Visible = {} /\ pc' # pc) => pc' = "done"]_vars

\* The worker returned after it had handled every message of the queue.
C12_Witness ==
    /\ IsWorker
    /\ pc = "done"
    /\ messages_processed = NumMsgs

IsArchive == program = "archive"
\* archive_datasets has just run and returned.
Archived == IsArchive /\ arun.ran /\ arun.outcome = "ok"
\* What the query of that run matched, and the datasets the run archived.
Matched == Range(arun.matched)
NewlyArchived == archived \ arun.before
ImmediateSources(S) == UNION {index[d].sources : d \in S}

\* C13: a run of archive_datasets archives the datasets its query matched
\* and their immediate lineage sources, and nothing else; it then asks for
\* one range recomputation of the product when the query matched something,
\* and calls neither archive nor the recomputation when it matched nothing.
C13_ArchivesMatchedAndImmediateSources ==
    Archived =>
        /\ archived = arun.before \cup Matched \cup ImmediateSources(Matched)
        /\ Matched # {} =>
              /\ arun.archive_calls = 1
              /\ Range(arun.ids) = Matched \cup ImmediateSources(Matched)
              /\ arun.ranges = <<arun.product>>
        /\ Matched = {} =>
              /\ arun.archive_calls = 0
              /\ arun.ranges = <<>>

\* A matched dataset has a source the query did not match, which has a source
\* of its own: the first source is archived, its own source is not.
C13_Witness ==
    /\ Archived
    /\ \E d \in Matched : \E s \in index[d].sources :
          /\ \E g \in index[s].sources : g \notin archived
          /\ s \in NewlyArchived \ Matched

\* C14: no dataset id occurs twice in the ids a run of archive_datasets
\* passes to the archive operation of the index.
C14_ArchiveIdsDistinct ==
    (IsArchive /\ arun.ran) =>
        \A i, j \in DOMAIN arun.ids : i # j => arun.ids[i] # arun.ids[j]

\* C15, as stated: no dataset whose time is later than the cutoff
\* now - days is archived by a run of archive_datasets.
C15_NothingAfterCutoffArchived ==
    (IsArchive /\ arun.ran) =>
        \A d \in NewlyArchived : index[d].time <= arun.now - arun.days

\* C15, amended: every dataset the query of a run matches is of the run's
\* product and has a time at or before the cutoff now - days; what the run
\* archives beyond the matched datasets are immediate lineage sources of
\* matched datasets, whatever their own time.
C15_MatchedNotAfterCutoff ==
    (IsArchive /\ arun.ran) =>
        /\ \A d \in Matched :
              /\ index[d].product = arun.product
              /\ index[d].time <= arun.now - arun.days
        /\ \A d \in NewlyArchived \ Matched :
              \E m \in Matched : d \in index[m].sources

\* With days > 0: a dataset of the product older than the cutoff is archived
\* and one later than the cutoff is untouched, while a source later than the
\* cutoff is archived with the dataset derived from it.
C15_Witness ==
    /\ Archived
    /\ arun.days > 0
    /\ \E d \in Matched : index[d].time < arun.now - arun.days
    /\ \E d \in DsIds : /\ index[d].product = arun.product
                        /\ index[d].time > arun.now - arun.days
                        /\ d \notin archived
    /\ \E d \in NewlyArchived : index[d].time > arun.now - arun.days

\* C16: when archive_datasets raises for one (product, days) pair, at
\* startup or in a daily run, main keeps running and the other pairs still
\* get their run.
C16_ArchiveFailureIsolated ==
    (IsArchive /\ arun.ran /\ arun.outcome # "ok") =>
        /\ pc # "crashed"
        /\ todo # <<>> => pc \in {"for", "loop"}

IsDead2Living == program = "dead2living"
IsDead2File == program = "dead2file"
Occurrences(seq, b) == Cardinality({i \in DOMAIN seq : seq[i] = b})
\* The messages of the dead-letter queue with this body, all and deleted.
Holding(b) == {m \in DeadIds : dlqueue[m].body = b}
DeletedHolding(b) == {m \in Holding(b) : dlqueue[m].state = "deleted"}

\* C17: in every state of a drain to the live queue, also when the tool was
\* stopped between two steps, every message deleted from the dead-letter
\* queue had its body sent to the live queue before: each body was sent at
\* least as often as messages holding it were deleted, and every other
\* message is still in the dead-letter queue, visible or in flight.
C17_NoMessageLost ==
    IsDead2Living =>
        /\ \A b \in DeadBodies : Cardinality(DeletedHolding(b)) <= Occurrences(queue, b)
        /\ \A i \in DOMAIN queue : Holding(queue[i]) # {}

\* The tool stopped between the send and the delete of its second message:
\* the first is deleted and in the live queue, the second is in flight in
\* the dead-letter queue and in the live queue.
C17_Witness ==
    /\ IsDead2Living
    /\ pc = "stopped"
    /\ \E m \in DeadIds : dlqueue[m].state = "deleted"
    /\ dl_message # 0
    /\ dlqueue[dl_message].state = "inflight"
    /\ Len(queue) = 2
    /\ queue[2] = dlqueue[dl_message].body

\* C18: a receive of the drain to the live queue that returns no message
\* ends the drain, also while the reported count is above zero: the tool
\* makes no receive after it.
C18_EmptyReceiveEndsDrain ==
    (IsDead2Living /\ dl_response = "empty") => pc # "receive"

\* C19: the drain to the file deletes no message from the dead-letter queue
\* and sends nothing to the live queue, and the file holds one line for
\* each body received, in order.
C19_ReadOnlyOneLinePerBody ==
    (IsDead2File /\ pc # "resent") =>
        /\ \A m \in DeadIds : dlqueue[m].state # "deleted"
        /\ queue = <<>>
        /\ Lines(f) = [i \in DOMAIN received |-> dlqueue[received[i]].body]

\* C20: after the dead-letter queue was drained to the file and each line of
\* the file re-sent, the live queue holds each body as often as the
\* dead-letter queue held it, and nothing else.
C20_RoundTripKeepsBodies ==
    (IsDead2File /\ pc = "resent") =>
        \A b \in DeadBodies \cup Range(queue) :
            Occurrences(queue, b) = Cardinality(Holding(b))

\* C22: in the orchestrator a message with Records is AllOk (no value of
\* errors is truthy) exactly when no selected record failed to be fetched or
\* registered, and every record that failed has its error in errors, also
\* when records of the message carry the same key.
C22_AllOkIffNoRecordFailed ==
    (IsOrch /\ Handled /\ last.decoded /\ HasRecords) =>
        /\ AnyError(last.result.errors) <=> SomeFailed
        /\ \A i \in DOMAIN last.result.outcomes :
              last.result.outcomes[i] # "ok" =>
                  last.result.errors[last.result.calls[i]] # None

NoRepeat(seq) == \A i, j \in DOMAIN seq : i # j => seq[i] # seq[j]

\* C23: query_queue calls add_product_range only in the step where a poll
\* returned no message and it returns: once for each distinct product of the
\* datasets registered in the pass if a checksum-valid message was processed
\* in the pass, not at all otherwise; the accumulator holds exactly the
\* products registered so far, none twice.
C23_RangesOnlyAtEmptyPoll ==
    [][IsOrch =>
          /\ range_calls' # <<>> => pc' = "idle"
          /\ range_calls' # range_calls =>
                \/ pc = "receive" /\ Visible = {} /\ pc' = "idle"
                \/ range_calls' = <<>>
          /\ (pc = "receive" /\ pc' = "idle") =>
                /\ NoRepeat(range_calls')
                /\ Range(range_calls') =
                      IF messages_processed > 0 THEN Range(products_to_update) ELSE {}
          /\ (pc = "body" /\ pc' # "crashed") =>
                /\ NoRepeat(products_to_update')
                /\ Range(products_to_update') =
                      Range(products_to_update) \cup Range(last'.result.datasets)]_vars

\* A pass registered datasets of two products and then met an empty poll:
\* two range recomputations.
C23_Witness ==
    /\ IsOrch
    /\ pc = "idle"
    /\ Len(range_calls) = 2

\* C24: every product of which a dataset was registered in a pass of
\* query_queue eventually has add_product_range called for it, also when a
\* later message fails or the pass ends in an exception.
C24_TouchedProductEventuallyRecomputed ==
    \A p \in {ProductOf(k) : k \in Keys} :
        (IsOrch /\ p \in Range(products_to_update)) ~> (p \in Range(range_calls))

IsDead2FileRun == IsDead2File /\ pc # "resent"

\* C27: the drain to the file writes no message of the dead-letter queue
\* twice, also when the message's visibility timeout runs out during the
\* drain.
C27_EachMessageWrittenOnce ==
    IsDead2FileRun => NoRepeat(received)

IsAdder == program = "add_to_queue"
\* The keys of all pages that end with the suffix, in listing order.
RECURSIVE Flatten(_)
Flatten(ps) == IF ps = <<>> THEN <<>> ELSE Head(ps) \o Flatten(Tail(ps))
RECURSIVE Ending(_)
Ending(keys) ==
    IF keys = <<>> THEN <<>>
    ELSE (IF EndsWith(Head(keys), suffix) THEN <<Head(keys)>> ELSE <<>>)
            \o Ending(Tail(keys))
MatchingKeys == Ending(Flatten(pages))

\* C28: when get_items(limit, suffix) has returned, the queue was sent the
\* first min(limit, M) of the M keys that end with the suffix, one message
\* for each, in listing order.
C28_SendsLimitItems ==
    (IsAdder /\ pc = "done") =>
        queue = SubSeq(MatchingKeys, 1,
                       IF limit < Len(MatchingKeys) THEN limit ELSE Len(MatchingKeys))

IsPool == program = "worker_pool"

\* C21: with several workers on one queue, a message is received, and passed
\* to run.main, one more time at most than its lease ran out before it was
\* deleted; a message that was processed and deleted while no lease on it
\* ever ran out was passed to run.main by the worker that deleted it and by
\* no other.
C21_OneWorkerPerLease ==
    IsPool => \A m \in MsgIds :
        /\ leases[m].receives <= leases[m].expired + 1
        /\ Len(ran[m]) <= leases[m].receives
        /\ (qstate[m] = "deleted" /\ leases[m].expired = 0 /\ ran[m] # <<>>) =>
              ran[m] = <<leases[m].deleter>>

\* One message was processed and deleted by one worker within its lease;
\* another was passed to run.main by both workers, the second after the
\* lease of the first had run out.
C21_Witness ==
    /\ IsPool
    /\ \E m \in MsgIds : /\ qstate[m] = "deleted"
                         /\ leases[m].expired = 0
                         /\ Len(ran[m]) = 1
    /\ \E m \in MsgIds : /\ Len(ran[m]) = 2
                         /\ ran[m][1] # ran[m][2]
                         /\ leases[m].expired = 1

IsTimed == program = "watch_queue_timed"

\* C25: for a validated message the worker deleted, the error "Exceeded max
\* job time" was logged exactly when the time from the message being received
\* to its deletion is longer than job_max_time.
C25_LoggedIffLeaseExceeded ==
    (IsTimed /\ job_check.id # 0 /\ job_check.timed) =>
        (job_check.logged <=> job_check.held > JobMaxTime)

IsMain == program = "orchestrate" /\ archive # <<>>

\* C26: in main's loop every archive job that is due is executed in the end,
\* also while notifications keep arriving on the live queue.
C26_DueArchiveJobEventuallyRuns ==
    (IsMain /\ todo # <<>>) ~> (todo = <<>>)

====
